---- MODULE Spec2Model ----
(***************************************************************************)
(* Model of rhcp-get-cases.py: the OAuth2 token cache of RedHatAPI, the    *)
(* case mapping of fetch_cases, the fetch pass and refresh loop of         *)
(* CaseMonitorTUI, and the daemon keyboard listener thread.                *)
(*                                                                         *)
(* Python Optional[T] values are modelled as sequences of length <= 1:     *)
(* <<>> is None (or, for a JSON object, an absent key) and <<v>> is v.     *)
(* A Python str whose content matters (the case summary) is a sequence of  *)
(* character codes; the other strings are TLA+ strings.                    *)
(***************************************************************************)
EXTENDS Integers, Sequences, FiniteSets, TLC

(* ------------------------------ bounds -------------------------------- *)

\* the wall clock runs over this many default token lifetimes (of 300 s)
MaxLifetimes == 3
\* number of accounts the accounts file may configure
MaxAccounts == 2
\* number of case records in one response handed to the mapping harness
MaxRecords == 2
\* how many characters beyond the truncation limit a summary may have
MaxOver == 2

(* ------------------------- program constants -------------------------- *)

\* data.get("expires_in", 300)
DefaultExpiresIn == 300
\* case_data.get("summary", "")[:100]
SummaryLimit == 100
\* refresh_minutes default of CaseMonitorTUI.__init__ / the value main() passes
refresh_minutes == 15
\* self.refresh_seconds = refresh_minutes * 60
refresh_seconds == refresh_minutes * 60
\* response.status_code != 200
HTTP_OK == 200

\* the wall clock runs from 0 to MaxTime seconds
MaxTime == MaxLifetimes * DefaultExpiresIn

None == <<>>
Some(v) == <<v>>

\* dict.get(key, default) on a JSON object field (absent key -> default)
DictGet(field, default) == IF field = <<>> THEN default ELSE field[1]

\* Python truthiness of an Optional[str]: None and "" are falsy
Truthy(opt) == opt # None /\ opt[1] # ""

\* the clock advances in steps of these many seconds
TickSteps == {DefaultExpiresIn, refresh_seconds}

VARIABLES
    now,            \* the wall clock (datetime.now(), time.time())
    access_token,   \* RedHatAPI.access_token : Optional[str]
    token_expiry,   \* RedHatAPI.token_expiry : Optional[datetime]
    issued_at,      \* when access_token was last assigned from a response
    lifetime,       \* the local expires_in of the last successful exchange
    call,           \* observation of the last get_access_token call
    response,       \* a case-filter response body handed to the mapping
    mapped,         \* Optional: the list of Case the mapping produced for it
    accounts,       \* CaseMonitorTUI.accounts : list of Account
    last_update,    \* CaseMonitorTUI.last_update : Optional[datetime]
    running,        \* CaseMonitorTUI.running
    error_message,  \* CaseMonitorTUI.error_message : Optional[str]
    mainpc,         \* where the main thread is in run()
    caller,         \* which call of fetch_all_cases is active: "init" or "loop"
    idx,            \* position of the for loop of fetch_all_cases
    last_fetch,     \* local last_fetch of run()
    current_time,   \* local current_time of run()
    exc,            \* the exception propagating out of run()'s try block
    exit_status,    \* Optional: the process exit status
    pass_log,       \* the outcome of each fetch of the current pass, in order
    pass_state,     \* "idle" before the first pass, then "running" or "done"
    lpc,            \* where the keyboard listener thread is
    term,           \* the terminal mode of stdin
    old_settings,   \* local old_settings of keyboard_listener
    q_read          \* the listener read q/Q in its loop while the display was live

sessionvars == <<access_token, token_expiry>>
ghostvars == <<issued_at, lifetime, call>>
mapvars == <<response, mapped>>
appvars == <<accounts, last_update, running, error_message, mainpc, caller, idx,
             last_fetch, current_time, exc, exit_status, pass_log, pass_state>>
listenervars == <<lpc, term, old_settings, q_read>>
vars == <<now, sessionvars, ghostvars, mapvars, appvars, listenervars>>

(* --------------------------- token endpoint --------------------------- *)

Tokens == {"tokA"}

\* answers of the token endpoint: a refusal, or a JSON body whose
\* access_token is absent, empty or a token, and whose expires_in is absent
\* or ten minutes
TokenResponses ==
    {[status_code |-> 401, data |-> [access_token |-> None, expires_in |-> None]]}
    \cup {[status_code |-> HTTP_OK, data |-> d] :
            d \in [access_token : {None, Some("")} \cup {Some(t) : t \in Tokens},
                   expires_in : {None, Some(2 * DefaultExpiresIn)}]}

\* RedHatAPI.get_access_token, as a function of the session, the time and
\* the token endpoint's answer.  Result: the session after the call, whether
\* the call raised, the value returned, whether the endpoint was called, and
\* the local expires_in.
get_access_token(tok, exp, t, resp) ==
    IF Truthy(tok) /\ exp # None /\ t < exp[1]
    THEN [access_token |-> tok, token_expiry |-> exp, raised |-> FALSE,
          ret |-> tok, posted |-> FALSE, expires_in |-> None]
    ELSE IF resp.status_code # HTTP_OK
    THEN [access_token |-> tok, token_expiry |-> exp, raised |-> TRUE,
          ret |-> None, posted |-> TRUE, expires_in |-> None]
    ELSE LET new == resp.data.access_token IN
         IF ~Truthy(new)
         THEN [access_token |-> new, token_expiry |-> exp, raised |-> TRUE,
               ret |-> None, posted |-> TRUE, expires_in |-> None]
         ELSE [access_token |-> new, token_expiry |-> Some(t), raised |-> FALSE,
               ret |-> new, posted |-> TRUE,
               expires_in |-> Some(DictGet(resp.data.expires_in, DefaultExpiresIn))]


(* ------------------------------ fetch_cases --------------------------- *)

BoundedSeq(S, n) == UNION {[1..k -> S] : k \in 0..n}

\* variant: the slice keeps one character too many
Slice_off_by_one(s) ==
    SubSeq(s, 1, IF Len(s) < SummaryLimit + 1 THEN Len(s) ELSE SummaryLimit + 1)

\* s[:100]
Slice(s) == SubSeq(s, 1, IF Len(s) < SummaryLimit THEN Len(s) ELSE SummaryLimit)

\* Case(case_number=case_data.get("caseNumber", ""), ...)
map_case(case_data) ==
    [case_number |-> DictGet(case_data.caseNumber, ""),
     summary |-> Slice(DictGet(case_data.summary, <<>>)),
     severity |-> DictGet(case_data.severity, ""),
     status |-> DictGet(case_data.status, ""),
     product |-> DictGet(case_data.product, ""),
     last_modified |-> DictGet(case_data.lastModifiedDate, "")]

\* cases = []; for case_data in data.get("cases", []): cases.append(Case(...))
map_cases(data) ==
    LET records == DictGet(data.cases, <<>>) IN
    [i \in 1..Len(records) |-> map_case(records[i])]

\* RedHatAPI.fetch_cases: the session after the call, whether it raised (and
\* with what text), and the cases returned
fetch_cases(tok, exp, t, tresp, cresp) ==
    LET r == get_access_token(tok, exp, t, tresp) IN
    IF r.raised
    THEN [access_token |-> r.access_token, token_expiry |-> r.token_expiry,
          raised |-> TRUE,
          text |-> IF tresp.status_code # HTTP_OK
                   THEN "Failed to obtain access token"
                   ELSE "No access token in response",
          cases |-> <<>>]
    ELSE IF cresp.status_code # HTTP_OK
    THEN [access_token |-> r.access_token, token_expiry |-> r.token_expiry,
          raised |-> TRUE, text |-> "Failed to fetch cases", cases |-> <<>>]
    ELSE [access_token |-> r.access_token, token_expiry |-> r.token_expiry,
          raised |-> FALSE, text |-> "", cases |-> map_cases(cresp.data)]

(* --------------------------- case-filter endpoint --------------------- *)

\* a case record as the case-filter endpoint sends it, with the given status
\* field (None: the record has no status key)
CaseRecord(number, status) ==
    [caseNumber |-> Some(number), summary |-> Some(<<1, 2, 3>>),
     severity |-> Some("High"), status |-> status,
     product |-> Some("RHEL"), lastModifiedDate |-> Some("2024-01-01")]

\* the lists of case records the application run is answered with
AppCaseLists ==
    {<<>>,
     <<CaseRecord("0401", Some("Waiting on Red Hat"))>>,
     <<CaseRecord("0402", Some("Waiting on Customer")), CaseRecord("0403", None)>>}

CaseResponses ==
    {[status_code |-> 500, data |-> [cases |-> None]],
     [status_code |-> HTTP_OK, data |-> [cases |-> None]]}
    \cup {[status_code |-> HTTP_OK, data |-> [cases |-> Some(cs)]] : cs \in AppCaseLists}

(* ------------------------------ CaseMonitorTUI ------------------------ *)

AccountIds == <<"111", "222", "333", "444">>
AccountNames == <<"Acme", "Globex", "Initech", "Umbrella">>

\* load_accounts on an accounts file that lists n accounts
load_accounts(n) ==
    [i \in 1..n |-> [id |-> AccountIds[i], name |-> AccountNames[i], cases |-> <<>>]]

ExceptionClasses == {"Exception", "FileNotFoundError"}

\* variant: the per-account handler is missing
handler_catches_nothing(e) == FALSE

\* line 210: except Exception as e
handler_catches(e) == e \in ExceptionClasses

\* line 205: self.error_message = None
clear_error(err) == None

\* variant: the first failure of a pass is kept
record_error_first_wins(err, name, text) ==
    IF err # None THEN err ELSE Some([account |-> name, text |-> text])

\* line 211: self.error_message = f"Error fetching cases for {account.name}: {str(e)}"
record_error(err, name, text) == Some([account |-> name, text |-> text])

\* variant: a failure empties every account
clear_cases_of_all(accts, i) ==
    [k \in 1..Len(accts) |-> [accts[k] EXCEPT !.cases = <<>>]]

\* line 212: account.cases = []
clear_cases(accts, i) == [accts EXCEPT ![i].cases = <<>>]

\* line 209: account.cases = self.api.fetch_cases(account.id)
store_cases(accts, i, cases) == [accts EXCEPT ![i].cases = cases]

\* variant: the for loop stops when the running flag is false
for_continues_while_running(i, n, run) == i <= n /\ run

\* line 207: the for loop has another account to visit
for_continues(i, n, run) == i <= n

\* variant: only a pass without failure is stamped
stamp_on_success(last, t, err) == IF err = None THEN Some(t) ELSE last

\* line 214: self.last_update = datetime.now()
stamp(last, t, err) == Some(t)

\* line 369: current_time - last_fetch >= self.refresh_seconds
refresh_due(cur, last) == cur - last >= refresh_seconds

(* --------------------------- Display Renderer ------------------------- *)

RECURSIVE SumTo(_, _)
SumTo(f, n) == IF n = 0 THEN 0 ELSE f[n] + SumTo(f, n - 1)

\* len([c for c in cases if c.status == st])
CountStatus(cases, st) == Cardinality({i \in 1..Len(cases) : cases[i].status = st})

\* create_account_table: case_count = len(account.cases) if account.cases else 0
case_count(account) == IF account.cases # <<>> THEN Len(account.cases) ELSE 0

\* create_summary_panel: total_cases
total_cases(accts) == SumTo([i \in 1..Len(accts) |-> Len(accts[i].cases)], Len(accts))

\* create_summary_panel: waiting_on_rh
waiting_on_rh(accts) ==
    SumTo([i \in 1..Len(accts) |-> CountStatus(accts[i].cases, "Waiting on Red Hat")],
          Len(accts))

\* variant: the cases whose status is "Waiting on Customer" are counted
waiting_on_customer_by_status(accts) ==
    SumTo([i \in 1..Len(accts) |-> CountStatus(accts[i].cases, "Waiting on Customer")],
          Len(accts))

\* create_summary_panel: waiting_on_customer = total_cases - waiting_on_rh
waiting_on_customer(accts) == total_cases(accts) - waiting_on_rh(accts)

(* ------------------------------ initial state ------------------------- *)

NoCall == [made |-> FALSE, fresh |-> FALSE, prev |-> None, posted |-> FALSE,
           raised |-> FALSE, ret |-> None]

\* RedHatAPI.__init__
SessionInit ==
    /\ access_token = None
    /\ token_expiry = None
    /\ issued_at = None
    /\ lifetime = None
    /\ call = NoCall

\* CaseMonitorTUI.__init__, run() not yet entered, the terminal in its
\* line-buffered mode and the listener thread not started
AppInit ==
    /\ accounts = <<>>
    /\ last_update = None
    /\ running = TRUE
    /\ error_message = None
    /\ mainpc = "load"
    /\ caller = "init"
    /\ idx = 1
    /\ last_fetch = 0
    /\ current_time = 0
    /\ exc = "none"
    /\ exit_status = None
    /\ pass_log = <<>>
    /\ pass_state = "idle"
    /\ lpc = "idle"
    /\ term = "canonical"
    /\ old_settings = None
    /\ q_read = FALSE

MapIdle ==
    /\ response = [cases |-> None]
    /\ mapped = None

Init ==
    /\ now = 0
    /\ SessionInit
    /\ AppInit
    /\ MapIdle

\* time passes
Tick ==
    /\ exit_status = None
    /\ \E d \in TickSteps :
          /\ now + d <= MaxTime
          /\ now' = now + d
    /\ UNCHANGED <<sessionvars, ghostvars, mapvars, appvars, listenervars>>

(* ------------------- harness: calls of get_access_token ---------------- *)

\* the held token is inside the lifetime the server advertised for it
\* (expires_in, 300 s when absent: "Token typically expires in 5 minutes")
InValidityWindow ==
    /\ Truthy(access_token)
    /\ issued_at # None
    /\ lifetime # None
    /\ now < issued_at[1] + lifetime[1]

\* one call of get_access_token, the token endpoint answering resp
CallGetAccessToken ==
    \E resp \in TokenResponses :
        LET r == get_access_token(access_token, token_expiry, now, resp) IN
        /\ access_token' = r.access_token
        /\ token_expiry' = r.token_expiry
        /\ issued_at' = IF r.posted /\ resp.status_code = HTTP_OK
                         THEN Some(now) ELSE issued_at
        /\ lifetime' = IF r.expires_in # None THEN r.expires_in ELSE lifetime
        /\ call' = [made |-> TRUE, fresh |-> InValidityWindow, prev |-> access_token,
                    posted |-> r.posted, raised |-> r.raised, ret |-> r.ret]
        /\ UNCHANGED <<now, mapvars, appvars, listenervars>>

ApiNext == Tick \/ CallGetAccessToken

ApiSpec == Init /\ [][ApiNext]_vars

(* ----------------- harness: the mapping of fetch_cases ----------------- *)

\* a summary of n characters, each position holding a different character
Text(n) == [i \in 1..n |-> i]

SummaryLengths ==
    {0, 1, SummaryLimit - 1, SummaryLimit} \cup {SummaryLimit + k : k \in 1..MaxOver}

MapCaseRecords ==
    [caseNumber : {Some("0401")},
     summary : {None} \cup {Some(Text(n)) : n \in SummaryLengths},
     severity : {Some("High")},
     status : {Some("Waiting on Red Hat")},
     product : {None, Some("RHEL")},
     lastModifiedDate : {None, Some("2024-01-01")}]

MapInit ==
    /\ now = 0
    /\ SessionInit
    /\ AppInit
    /\ response \in {[cases |-> None]}
           \cup {[cases |-> Some(cs)] : cs \in BoundedSeq(MapCaseRecords, MaxRecords)}
    /\ mapped = None

\* lines 121-134 on a successful response
MapResponse ==
    /\ mapped = None
    /\ mapped' = Some(map_cases(response))
    /\ UNCHANGED <<now, sessionvars, ghostvars, response, appvars, listenervars>>

MapNext == MapResponse

MapSpec == MapInit /\ [][MapNext]_vars

(* ------------------------- the main thread: run() ---------------------- *)

\* lines 375-378 and main(): KeyboardInterrupt is swallowed and the process
\* ends with status 0; any other exception leaves run() and main()
exit_code(e) == IF e \in {"none", "KeyboardInterrupt"} THEN 0 ELSE 1

\* run() leaves its try block with exception e ("none": the loop ended), the
\* finally clause prints, and the process ends; the interpreter does not
\* wait for the daemon thread, which stops wherever it is
Terminate(e) ==
    /\ exc' = e
    /\ exit_status' = Some(exit_code(e))
    /\ mainpc' = "exited"
    /\ lpc' = IF lpc \in {"idle", "done"} THEN lpc ELSE "killed"

\* line 357, the accounts file holding n accounts
LoadAccounts ==
    /\ mainpc = "load"
    /\ \E n \in 0..MaxAccounts : accounts' = load_accounts(n)
    /\ mainpc' = "fetch_begin"
    /\ caller' = "init"
    /\ UNCHANGED <<now, sessionvars, ghostvars, mapvars, last_update, running,
                   error_message, idx, last_fetch, current_time, exc, exit_status,
                   pass_log, pass_state, listenervars>>

\* line 189: the accounts file does not exist
LoadAccountsFail ==
    /\ mainpc = "load"
    /\ Terminate("FileNotFoundError")
    /\ UNCHANGED <<now, sessionvars, ghostvars, mapvars, accounts, last_update,
                   running, error_message, caller, idx, last_fetch, current_time,
                   pass_log, pass_state, term, old_settings, q_read>>

\* fetch_all_cases, line 205
FetchBegin ==
    /\ mainpc = "fetch_begin"
    /\ error_message' = clear_error(error_message)
    /\ idx' = 1
    /\ pass_log' = <<>>
    /\ pass_state' = "running"
    /\ mainpc' = "fetch_loop"
    /\ UNCHANGED <<now, sessionvars, ghostvars, mapvars, accounts, last_update,
                   running, caller, last_fetch, current_time, exc, exit_status,
                   listenervars>>

\* fetch_all_cases, lines 207-212: one iteration of the for loop
FetchAccount ==
    /\ mainpc = "fetch_loop"
    /\ for_continues(idx, Len(accounts), running)
    /\ \E tresp \in TokenResponses, cresp \in CaseResponses :
        LET r == fetch_cases(access_token, token_expiry, now, tresp, cresp) IN
        /\ access_token' = r.access_token
        /\ token_expiry' = r.token_expiry
        /\ pass_log' = Append(pass_log, [account |-> idx, ok |-> ~r.raised,
                                         cases |-> r.cases, text |-> r.text])
        /\ IF ~r.raised
           THEN /\ accounts' = store_cases(accounts, idx, r.cases)
                /\ idx' = idx + 1
                /\ UNCHANGED <<error_message, mainpc, exc, exit_status, lpc>>
           ELSE IF handler_catches("Exception")
           THEN /\ error_message' = record_error(error_message, accounts[idx].name, r.text)
                /\ accounts' = clear_cases(accounts, idx)
                /\ idx' = idx + 1
                /\ UNCHANGED <<mainpc, exc, exit_status, lpc>>
           ELSE /\ Terminate("Exception")
                /\ UNCHANGED <<accounts, error_message, idx>>
    /\ UNCHANGED <<now, ghostvars, mapvars, last_update, running, caller, last_fetch,
                   current_time, pass_state, term, old_settings, q_read>>

\* fetch_all_cases, line 214, and the return to run() (line 359 or line 371)
FetchEnd ==
    /\ mainpc = "fetch_loop"
    /\ ~for_continues(idx, Len(accounts), running)
    /\ last_update' = stamp(last_update, now, error_message)
    /\ pass_state' = "done"
    /\ IF caller = "init"
       THEN /\ mainpc' = "start_thread"
            /\ UNCHANGED last_fetch
       ELSE /\ mainpc' = "update"
            /\ last_fetch' = current_time
    /\ UNCHANGED <<now, sessionvars, ghostvars, mapvars, accounts, running,
                   error_message, caller, idx, current_time, exc, exit_status,
                   pass_log, listenervars>>

\* lines 362-363: the daemon thread starts
StartListener ==
    /\ mainpc = "start_thread"
    /\ lpc' = "enter"
    /\ mainpc' = "live_enter"
    /\ UNCHANGED <<now, sessionvars, ghostvars, mapvars, accounts, last_update,
                   running, error_message, caller, idx, last_fetch, current_time,
                   exc, exit_status, pass_log, pass_state, term, old_settings, q_read>>

\* lines 365-366: the display goes live
LiveEnter ==
    /\ mainpc = "live_enter"
    /\ last_fetch' = now
    /\ mainpc' = "while"
    /\ UNCHANGED <<now, sessionvars, ghostvars, mapvars, accounts, last_update,
                   running, error_message, caller, idx, current_time, exc,
                   exit_status, pass_log, pass_state, listenervars>>

\* lines 367-369: the loop reads the flag, then the time
LoopIterate ==
    /\ mainpc = "while"
    /\ running
    /\ current_time' = now
    /\ IF refresh_due(now, last_fetch)
       THEN /\ mainpc' = "fetch_begin"
            /\ caller' = "loop"
       ELSE /\ mainpc' = "update"
            /\ UNCHANGED caller
    /\ UNCHANGED <<now, sessionvars, ghostvars, mapvars, accounts, last_update,
                   running, error_message, idx, last_fetch, exc, exit_status,
                   pass_log, pass_state, listenervars>>

\* line 367 with the flag false: the loop and the Live context end, run()
\* returns and the process exits
LoopExit ==
    /\ mainpc = "while"
    /\ ~running
    /\ Terminate("none")
    /\ UNCHANGED <<now, sessionvars, ghostvars, mapvars, accounts, last_update,
                   running, error_message, caller, idx, last_fetch, current_time,
                   pass_log, pass_state, term, old_settings, q_read>>

\* lines 373-374: live.update(self.create_layout()); time.sleep(0.2)
Update ==
    /\ mainpc = "update"
    /\ mainpc' = "while"
    /\ UNCHANGED <<now, sessionvars, ghostvars, mapvars, accounts, last_update,
                   running, error_message, caller, idx, last_fetch, current_time,
                   exc, exit_status, pass_log, pass_state, listenervars>>

\* the positions of run() inside its try block
TryPcs == {"load", "fetch_begin", "fetch_loop", "start_thread", "live_enter",
           "while", "update"}

\* the positions inside the with Live(...) block
LivePcs == {"while", "update", "fetch_begin", "fetch_loop"}

\* SIGINT (Ctrl+C) raises KeyboardInterrupt in the main thread, inside the
\* try block of run()
Interrupt ==
    /\ mainpc \in TryPcs
    /\ Terminate("KeyboardInterrupt")
    /\ UNCHANGED <<now, sessionvars, ghostvars, mapvars, accounts, last_update,
                   running, error_message, caller, idx, last_fetch, current_time,
                   pass_log, pass_state, term, old_settings, q_read>>

(* --------------------- the keyboard listener thread -------------------- *)

Keys == {"q", "Q", "x"}

\* char.lower() == 'q'
IsQuit(ch) == ch \in {"q", "Q"}

\* lines 157-159: old_settings = tcgetattr(fd); tty.setcbreak(fd)
ListenerEnter ==
    /\ lpc = "enter"
    /\ old_settings' = Some(term)
    /\ term' = "cbreak"
    /\ lpc' = "loop"
    /\ UNCHANGED <<now, sessionvars, ghostvars, mapvars, appvars, q_read>>

\* lines 160-165: one iteration of the while loop, a key being typed
ListenerLoop ==
    /\ lpc = "loop"
    /\ IF ~running
       THEN /\ lpc' = "finally"
            /\ UNCHANGED <<running, q_read>>
       ELSE \E ch \in Keys :
              IF IsQuit(ch)
              THEN /\ running' = FALSE
                   /\ q_read' = (q_read \/ mainpc \in LivePcs)
                   /\ lpc' = "finally"
              ELSE /\ lpc' = "loop"
                   /\ UNCHANGED <<running, q_read>>
    /\ UNCHANGED <<now, sessionvars, ghostvars, mapvars, accounts, last_update,
                   error_message, mainpc, caller, idx, last_fetch, current_time,
                   exc, exit_status, pass_log, pass_state, term, old_settings>>

\* lines 166-167: finally: tcsetattr(fd, TCSADRAIN, old_settings)
ListenerRestore ==
    /\ lpc = "finally"
    /\ term' = old_settings[1]
    /\ lpc' = "enter2"
    /\ UNCHANGED <<now, sessionvars, ghostvars, mapvars, appvars, old_settings, q_read>>

\* lines 174-176: old_settings = tcgetattr(sys.stdin); tty.setcbreak(...)
ListenerEnter2 ==
    /\ lpc = "enter2"
    /\ old_settings' = Some(term)
    /\ term' = "cbreak"
    /\ lpc' = "select"
    /\ UNCHANGED <<now, sessionvars, ghostvars, mapvars, appvars, q_read>>

\* lines 178-184: a key is read when one is available, then finally:
\* tcsetattr(sys.stdin, TCSADRAIN, old_settings)
ListenerSelect ==
    /\ lpc = "select"
    /\ \E avail \in BOOLEAN, ch \in Keys :
          running' = IF avail /\ IsQuit(ch) THEN FALSE ELSE running
    /\ term' = old_settings[1]
    /\ lpc' = "done"
    /\ UNCHANGED <<now, sessionvars, ghostvars, mapvars, accounts, last_update,
                   error_message, mainpc, caller, idx, last_fetch, current_time,
                   exc, exit_status, pass_log, pass_state, old_settings, q_read>>

Next ==
    \/ Tick
    \/ LoadAccounts \/ LoadAccountsFail
    \/ FetchBegin \/ FetchAccount \/ FetchEnd
    \/ StartListener \/ LiveEnter \/ LoopIterate \/ LoopExit \/ Update
    \/ Interrupt
    \/ ListenerEnter \/ ListenerLoop \/ ListenerRestore
    \/ ListenerEnter2 \/ ListenerSelect

Spec == Init /\ [][Next]_vars

(* ------------------------------- properties --------------------------- *)

\* C1: after a successful call of get_access_token, a second call made
\* within the token's validity window returns the identical cached token
\* without calling the token endpoint, and a call made outside the window
\* calls the endpoint once.
C1_CachedWithinWindow ==
    call.made =>
        /\ call.fresh => (~call.posted /\ ~call.raised /\ call.ret = call.prev)
        /\ ~call.fresh => call.posted

\* C6: in every state between calls of get_access_token, a non-null access
\* token comes with a non-null expiry that was set no earlier than the
\* moment that token was received.
C6_TokenHasExpiry ==
    access_token # None =>
        /\ token_expiry # None
        /\ issued_at # None
        /\ token_expiry[1] >= issued_at[1]

\* C4: once the listener has read q or Q while the display is live, the
\* running flag is false, and when the process has exited with status 0 the
\* terminal is back in the mode saved before the listener changed it.
C4_TerminalRestoredAtExit ==
    q_read =>
        /\ ~running
        /\ exit_status = Some(0) => term = "canonical"

\* the failed fetches of a pass log, and the message of the last of them
Failed(log) == {k \in 1..Len(log) : ~log[k].ok}

Last(S) == CHOOSE k \in S : \A j \in S : j <= k

\* C2: at the end of a fetch pass, every account whose fetch failed has no
\* cases and the error message is non-null, and every account whose fetch
\* succeeded holds exactly the cases returned for it in that pass.
C2_PassOutcome ==
    pass_state = "done" =>
        \A k \in 1..Len(pass_log) :
            IF pass_log[k].ok
            THEN accounts[pass_log[k].account].cases = pass_log[k].cases
            ELSE /\ accounts[pass_log[k].account].cases = <<>>
                 /\ error_message # None

\* a finished pass in which one account got cases and another one failed
C2_Witness ==
    /\ pass_state = "done"
    /\ \E j, k \in 1..Len(pass_log) :
          /\ pass_log[j].ok
          /\ pass_log[j].cases # <<>>
          /\ ~pass_log[k].ok
          /\ j < k

\* C3: the error slot is null when a pass starts, and during and after the
\* pass it is null if and only if no fetch of the pass has failed; otherwise
\* it holds the message of the last account that failed, in account order.
C3_ErrorSlot ==
    /\ Failed(pass_log) = {} <=> error_message = None
    /\ Failed(pass_log) # {} =>
          LET e == pass_log[Last(Failed(pass_log))] IN
          error_message = Some([account |-> AccountNames[e.account], text |-> e.text])

\* a finished pass in which two accounts failed, for different reasons
C3_Witness ==
    /\ pass_state = "done"
    /\ Cardinality(Failed(pass_log)) = 2
    /\ pass_log[1].text # pass_log[2].text
    /\ caller = "loop"

\* a fetch of the current pass has just failed
FetchFailed ==
    /\ Len(pass_log') = Len(pass_log) + 1
    /\ ~pass_log'[Len(pass_log')].ok

\* C5: a failed token exchange or case query leaves fetch_all_cases in its
\* loop with the running flag unchanged and the process alive, a pass that
\* ends returns to run(), which goes on to the display, and the process
\* exits with a non-zero status only when the accounts file failed to load.
C5_FailuresNotFatal ==
    /\ [][FetchFailed =>
            /\ running' = running
            /\ mainpc' = "fetch_loop"
            /\ idx' = idx + 1
            /\ exit_status' = None]_vars
    /\ [][(pass_state = "running" /\ pass_state' = "done") =>
            /\ mainpc' \in {"start_thread", "update"}
            /\ running' = running
            /\ exit_status' = None]_vars
    /\ [](exit_status = Some(1) => (exc = "FileNotFoundError" /\ pass_state = "idle"))

\* a scheduled pass of the loop had a failure and the loop is rendering again
C5_Witness ==
    /\ caller = "loop"
    /\ mainpc = "update"
    /\ pass_state = "done"
    /\ Failed(pass_log) # {}
    /\ running
    /\ exit_status = None

\* C7: the step that ends a fetch pass sets last_update to the time of that
\* step, whatever failed; last_update is non-null once a pass has ended and
\* never decreases.
C7_LastUpdateStamped ==
    /\ [][(pass_state = "running" /\ pass_state' = "done") =>
            last_update' = Some(now')]_vars
    /\ [][last_update # None =>
            (last_update' # None /\ last_update'[1] >= last_update[1])]_vars
    /\ [](pass_state = "done" => last_update # None)

\* a later pass with a failure has been stamped with a later time
C7_Witness ==
    /\ pass_state = "done"
    /\ caller = "loop"
    /\ Failed(pass_log) # {}
    /\ last_update = Some(refresh_seconds)

\* the cases of all accounts whose status is not "Waiting on Red Hat"
NotWaitingOnRedHat(accts) ==
    SumTo([i \in 1..Len(accts) |->
              Cardinality({j \in 1..Len(accts[i].cases) :
                              accts[i].cases[j].status # "Waiting on Red Hat"})],
          Len(accts))

\* C8: in every state the total of the summary panel is the sum of the case
\* counts in the account tables' titles, the two waiting counts add up to
\* the total, and the waiting-on-customer count is the number of cases that
\* are not waiting on Red Hat.
C8_SummaryCounts ==
    /\ total_cases(accounts)
         = SumTo([i \in 1..Len(accounts) |-> case_count(accounts[i])], Len(accounts))
    /\ waiting_on_rh(accounts) + waiting_on_customer(accounts) = total_cases(accounts)
    /\ waiting_on_customer(accounts) = NotWaitingOnRedHat(accounts)

\* accounts with cases waiting on Red Hat, on the customer and with no status,
\* after a pass in which an account failed
C8_Witness ==
    /\ total_cases(accounts) = 3
    /\ waiting_on_rh(accounts) = 1
    /\ Len(accounts) = 2

\* C10 as stated: once the display loop has started a fetch pass, the run
\* does not stop (exit with status 0) while that pass is in progress.
C10_NoStopMidPass ==
    (exit_status = Some(0) /\ caller = "loop") => pass_state # "running"

\* C10, amended: the for loop of a pass visits the accounts in order, each
\* once, whatever the running flag is; the main loop reads the flag, and
\* leaves because of it, only when no pass is in progress; and the flag,
\* once false, stays false.
C10_FlagStopWaitsForPass ==
    /\ [](pass_state # "idle" =>
            /\ \A k \in 1..Len(pass_log) : pass_log[k].account = k
            /\ Len(pass_log) <= Len(accounts))
    /\ [](pass_state = "done" => Len(pass_log) = Len(accounts))
    /\ [](mainpc = "while" => pass_state = "done")
    /\ []((exit_status # None /\ exc = "none") => (pass_state = "done" /\ ~running))
    /\ [][~running => ~running']_vars

\* the flag is false while a pass of the loop still has an account to fetch
C10_Witness ==
    /\ ~running
    /\ pass_state = "running"
    /\ caller = "loop"
    /\ idx = 2
    /\ Len(accounts) = 2
    /\ exit_status = None

\* C9: a successful response is mapped record by record, in order; a summary
\* becomes its first 100 characters (all of it when shorter), and an absent
\* summary, product or lastModifiedDate becomes the empty string.
C9_Mapping ==
    mapped # None =>
        LET records == DictGet(response.cases, <<>>)
            cases == mapped[1]
        IN /\ Len(cases) = Len(records)
           /\ \A i \in 1..Len(records) :
                LET rec == records[i]
                    c == cases[i]
                IN /\ rec.summary = None => c.summary = <<>>
                   /\ rec.summary # None =>
                        /\ Len(c.summary) <= SummaryLimit
                        /\ Len(rec.summary[1]) >= SummaryLimit
                              => Len(c.summary) = SummaryLimit
                        /\ Len(rec.summary[1]) < SummaryLimit
                              => Len(c.summary) = Len(rec.summary[1])
                        /\ \A j \in 1..Len(c.summary) : c.summary[j] = rec.summary[1][j]
                   /\ c.product = (IF rec.product = None THEN "" ELSE rec.product[1])
                   /\ c.last_modified = (IF rec.lastModifiedDate = None THEN ""
                                         ELSE rec.lastModifiedDate[1])
                   /\ c.case_number = rec.caseNumber[1]
                   /\ c.status = rec.status[1]

\* a mapped response with a summary of more than 100 characters and a record
\* that has no summary, no product and no lastModifiedDate
C9_Witness ==
    /\ mapped # None
    /\ response.cases # None
    /\ Len(response.cases[1]) = 2
    /\ response.cases[1][1].summary # None
    /\ Len(response.cases[1][1].summary[1]) > SummaryLimit
    /\ Len(mapped[1][1].summary) = SummaryLimit
    /\ response.cases[1][2].summary = None
    /\ response.cases[1][2].product = None
    /\ response.cases[1][2].lastModifiedDate = None

====
